---- MODULE Spec2Model ----
(***************************************************************************)
(* Model of the tab-audit background script (src/src/background/index.ts)  *)
(* and of the settings store it reads (src/src/shared/settings.ts).        *)
(*                                                                         *)
(* Strings that the code inspects character by character (domains and      *)
(* list patterns) are sequences of one-character strings.  A tab is a      *)
(* record [id, url, active, lastAccessed]; id = 0 stands for a missing id, *)
(* url = "" for a missing url and lastAccessed = 0 for a missing           *)
(* lastAccessed: the code tests all three by truthiness only.              *)
(***************************************************************************)
EXTENDS Integers, Sequences, FiniteSets, TLC

VARIABLES
    allTabs,         \* rule engine: the tab snapshot of the run
    settings,        \* rule engine: the settings of the run
    tabActivityMap,  \* index.ts:4, tab id -> time of last activity
    now,             \* rule engine: Date.now() of the run
    tabsToClose,     \* rule engine: what each stage added to the close-set
    phase,           \* rule engine: "input" before the pipeline ran, then "evaluated"
    matcher,         \* domainMatches: its arguments and what it returned
    trackerCalls,    \* the calls made on the activity tracker, in order
    initTracking,    \* the call of initializeActivityTracking (index.ts:361)
    stored,          \* chrome.storage.local: the saved settings
    browserTabs,     \* the browser: tab id -> the open tab, or NoTab
    warningActive,   \* index.ts:153
    iconRequested,   \* the last chrome.action.setIcon request: "none", "on", "off"
    pendingChange,   \* the storage.onChanged event not yet delivered, or NoChange
    runs             \* the calls of applyCleanupRules in flight

engineVars == <<allTabs, settings, now, tabsToClose, phase, matcher, trackerCalls, initTracking>>

hostVars == <<stored, browserTabs, warningActive, iconRequested, pendingChange, runs>>

vars == <<allTabs, settings, tabActivityMap, now, tabsToClose, phase, matcher, trackerCalls,
          initTracking, stored,
          browserTabs, warningActive, iconRequested, pendingChange, runs>>

----------------------------------------------------------------------------
(* Bounds and the finite input universe *)

\* largest number of tabs in a snapshot
MaxTabCount == 3

\* largest number of tabs in a snapshot with missing ids or tracked activity
MaxSmallCount == 2

\* the time of the run, in milliseconds
NowMs == 200000

\* tab ids the browser hands out
MaxBrowserTabs == 2

\* calls of applyCleanupRules that can be in flight together
MaxRuns == 2

\* the longest domain and the longest pattern given to domainMatches
MaxDomainLen == 5

MaxPatternLen == 3
\* calls made on the activity tracker in one behaviour
MaxCalls == 4

NoUrl == ""

\* one-character strings spelling the host names
HostE == <<"e", ".", "c">>
HostSubE == <<"s", ".", "e", ".", "c">>
HostFakeE == <<"f", "e", ".", "c">>

\* new URL(url).hostname: the URLs of the model and what the parser yields
UrlE == "https://e.c/"
UrlSubE == "https://s.e.c/"
UrlFakeE == "https://fe.c/"
UrlBad == "not a url"

\* UrlFakeE with a query string, and with a fragment
UrlFakeEQuery == "https://fe.c/?a=1"
UrlFakeEFragment == "https://fe.c/#s"

Urls == {UrlE, UrlSubE, UrlFakeE, UrlFakeEQuery, UrlFakeEFragment, UrlBad}

UrlParses(url) == url \in {UrlE, UrlSubE, UrlFakeE, UrlFakeEQuery, UrlFakeEFragment}

UrlHostname(url) ==
    CASE url = UrlE -> HostE
      [] url = UrlSubE -> HostSubE
      [] url \in {UrlFakeE, UrlFakeEQuery, UrlFakeEFragment} -> HostFakeE

\* the url up to its query string or fragment
UrlWithoutQueryAndFragment(url) ==
    IF url \in {UrlFakeEQuery, UrlFakeEFragment} THEN UrlFakeE ELSE url

----------------------------------------------------------------------------
(* Activity tracker *)

\* index.ts:29-34
getLastActivity(tab, map) ==
    IF tab.id # 0 /\ tab.id \in DOMAIN map
    THEN map[tab.id]
    ELSE tab.lastAccessed

----------------------------------------------------------------------------
(* Domain matcher *)

\* index.ts:49-56
getDomain(url) ==
    IF url = NoUrl THEN <<>>
    ELSE IF UrlParses(url) THEN UrlHostname(url)
    ELSE <<>>

\* String.prototype.endsWith
EndsWith(s, suffix) ==
    /\ Len(suffix) <= Len(s)
    /\ SubSeq(s, Len(s) - Len(suffix) + 1, Len(s)) = suffix

\* a matcher without the exact-match branch
domainMatchesSubdomainOnly(domain, pattern) ==
    IF domain = <<>> \/ pattern = <<>> THEN FALSE
    ELSE IF EndsWith(domain, <<".">> \o pattern) THEN TRUE
    ELSE FALSE

\* a matcher that accepts any textual suffix
domainMatchesBareSuffix(domain, pattern) ==
    IF domain = <<>> \/ pattern = <<>> THEN FALSE
    ELSE EndsWith(domain, pattern)

\* a matcher without the guard on empty strings
domainMatchesEmptyToo(domain, pattern) ==
    IF domain = pattern THEN TRUE
    ELSE IF EndsWith(domain, <<".">> \o pattern) THEN TRUE
    ELSE FALSE

\* index.ts:67-74
domainMatches(domain, pattern) ==
    IF domain = <<>> \/ pattern = <<>> THEN FALSE
    ELSE IF domain = pattern THEN TRUE
    ELSE IF EndsWith(domain, <<".">> \o pattern) THEN TRUE
    ELSE FALSE

\* initializeActivityTracking is not in flight: it found no tab, or it is over
NoTracking == [pc |-> "done", tabs |-> <<>>]

\* domainMatches has not been called
NoMatch == [domain |-> <<>>, pattern |-> <<>>, result |-> FALSE]

\* list.some((p) => domainMatches(getDomain(tab.url), p)), index.ts:203,206,225,243
matchesAny(tab, list) ==
    \E i \in 1..Len(list) : domainMatches(getDomain(tab.url), list[i])

----------------------------------------------------------------------------
(* Duplicate detector *)

\* a comparator that puts the oldest first
dupCompareOldestFirst(a, b) ==
    IF a.active /\ ~b.active THEN -1
    ELSE IF ~a.active /\ b.active THEN 1
    ELSE a.lastAccessed - b.lastAccessed

\* a comparator that does not look at active
dupCompareIgnoresActive(a, b) == b.lastAccessed - a.lastAccessed

\* the comparator of index.ts:137-141: negative when a sorts before b
dupCompare(a, b) ==
    IF a.active /\ ~b.active THEN -1
    ELSE IF ~a.active /\ b.active THEN 1
    ELSE b.lastAccessed - a.lastAccessed

\* Array.prototype.sort is stable: x goes after every element it does not
\* strictly precede
RECURSIVE dupInsert(_, _)
dupInsert(sorted, x) ==
    IF sorted = <<>> THEN <<x>>
    ELSE IF dupCompare(x, Head(sorted)) < 0 THEN <<x>> \o sorted
    ELSE <<Head(sorted)>> \o dupInsert(Tail(sorted), x)

RECURSIVE dupSort(_)
dupSort(group) ==
    IF group = <<>> THEN <<>>
    ELSE dupInsert(dupSort(SubSeq(group, 1, Len(group) - 1)), group[Len(group)])

\* the keys of urlMap in insertion order, index.ts:125-131
RECURSIVE urlKeys(_, _)
urlKeys(tabs, seen) ==
    IF tabs = <<>> THEN <<>>
    ELSE IF Head(tabs).url = NoUrl \/ Head(tabs).url \in seen
         THEN urlKeys(Tail(tabs), seen)
         ELSE <<Head(tabs).url>> \o urlKeys(Tail(tabs), seen \cup {Head(tabs).url})

\* a urlMap keyed by the url without query string and fragment
urlGroupNormalized(tabs, url) ==
    SelectSeq(tabs, LAMBDA t :
        t.url # NoUrl /\ UrlWithoutQueryAndFragment(t.url) = UrlWithoutQueryAndFragment(url))

\* urlMap.get(url), index.ts:125-131
urlGroup(tabs, url) == SelectSeq(tabs, LAMBDA t : t.url = url)

RECURSIVE idsOf(_)
idsOf(tabs) ==
    IF tabs = <<>> THEN <<>> ELSE <<Head(tabs).id>> \o idsOf(Tail(tabs))

\* a body of urlMap.forEach that forgets slice(1)
groupDuplicatesWithKeeper(group) ==
    IF Len(group) > 1
    THEN idsOf(SelectSeq(dupSort(group), LAMBDA t : t.id # 0 /\ ~t.active))
    ELSE <<>>

\* a body of urlMap.forEach that does not filter out active tabs
groupDuplicatesActiveToo(group) ==
    IF Len(group) > 1
    THEN idsOf(SelectSeq(Tail(dupSort(group)), LAMBDA t : t.id # 0))
    ELSE <<>>

\* index.ts:134-146, the body of urlMap.forEach
groupDuplicates(group) ==
    IF Len(group) > 1
    THEN idsOf(SelectSeq(Tail(dupSort(group)), LAMBDA t : t.id # 0 /\ ~t.active))
    ELSE <<>>

RECURSIVE dupConcat(_, _)
dupConcat(tabs, keys) ==
    IF keys = <<>> THEN <<>>
    ELSE groupDuplicates(urlGroup(tabs, Head(keys))) \o dupConcat(tabs, Tail(keys))

\* index.ts:121-150
getDuplicateTabs(tabs) == dupConcat(tabs, urlKeys(tabs, {}))

\* a call that sorts the array it was given
getDuplicateTabsSortsInput(tabs) ==
    [duplicates |-> getDuplicateTabs(tabs), tabs |-> dupSort(tabs)]

\* index.ts:121-150 as a call: what it returns and the caller's array after it.
\* The arrays that index.ts:137 sorts in place are the ones index.ts:128 created
\* for urlMap, so the caller's array is as it was
getDuplicateTabsCall(tabs) ==
    [duplicates |-> getDuplicateTabs(tabs), tabs |-> tabs]

Range(s) == {s[i] : i \in 1..Len(s)}

----------------------------------------------------------------------------
(* Cleanup rule engine: the synchronous pipeline of index.ts:194-251 *)

\* index.ts:165
idleTimeoutMs(s) == s.idleTimeout * 60 * 1000

\* a sort that puts the most recently used first
RECURSIVE lruInsertNewestFirst(_, _)
lruInsertNewestFirst(sorted, x) ==
    IF sorted = <<>> THEN <<x>>
    ELSE IF Head(sorted).lastAccessed - x.lastAccessed < 0 THEN <<x>> \o sorted
    ELSE <<Head(sorted)>> \o lruInsertNewestFirst(Tail(sorted), x)

\* index.ts:195, ascending by lastAccessed, stable
RECURSIVE lruInsert(_, _)
lruInsert(sorted, x) ==
    IF sorted = <<>> THEN <<x>>
    ELSE IF x.lastAccessed - Head(sorted).lastAccessed < 0 THEN <<x>> \o sorted
    ELSE <<Head(sorted)>> \o lruInsert(Tail(sorted), x)

RECURSIVE sortedTabs(_)
sortedTabs(tabs) ==
    IF tabs = <<>> THEN <<>>
    ELSE lruInsert(sortedTabs(SubSeq(tabs, 1, Len(tabs) - 1)), tabs[Len(tabs)])

\* guards that let the active tab through
passesGuardsActiveToo(tab, s) ==
    /\ tab.id # 0
    /\ ~matchesAny(tab, s.whitelist)

\* index.ts:198-203: the tab reaches the blacklist test
passesGuards(tab, s) ==
    /\ tab.id # 0
    /\ ~tab.active
    /\ ~matchesAny(tab, s.whitelist)

\* index.ts:205-209
blacklistStage(tabs, s) ==
    {tabs[i].id : i \in {j \in 1..Len(tabs) :
        passesGuards(tabs[j], s) /\ matchesAny(tabs[j], s.blacklist)}}

\* an idle test that counts the boundary as idle
isIdleInclusive(tab, s, map, t) ==
    LET lastActivity == getLastActivity(tab, map)
    IN  lastActivity # 0 /\ t - lastActivity >= idleTimeoutMs(s)

\* index.ts:212-213
isIdle(tab, s, map, t) ==
    LET lastActivity == getLastActivity(tab, map)
    IN  lastActivity # 0 /\ t - lastActivity > idleTimeoutMs(s)

\* index.ts:211-215
idleStage(tabs, s, map, t) ==
    {tabs[i].id : i \in {j \in 1..Len(tabs) :
        /\ passesGuards(tabs[j], s)
        /\ ~matchesAny(tabs[j], s.blacklist)
        /\ isIdle(tabs[j], s, map, t)}}

\* allTabs.find((t) => t.id === id), index.ts:222: the index, 0 when none
findIndex(tabs, id) ==
    IF \E i \in 1..Len(tabs) : tabs[i].id = id
    THEN CHOOSE i \in 1..Len(tabs) :
            tabs[i].id = id /\ \A j \in 1..(i - 1) : tabs[j].id # id
    ELSE 0

\* a duplicate pass without the whitelist re-check
duplicateStageNoWhitelist(tabs, s) ==
    {id \in Range(getDuplicateTabs(tabs)) :
        LET k == findIndex(tabs, id)
        IN  k # 0 /\ ~tabs[k].active}

\* index.ts:219-229
duplicateStage(tabs, s) ==
    {id \in Range(getDuplicateTabs(tabs)) :
        LET k == findIndex(tabs, id)
        IN  /\ k # 0
            /\ ~tabs[k].active
            /\ ~matchesAny(tabs[k], s.whitelist)}

\* index.ts:239-248: the ids the loop adds, walking `sorted` with `closing`
\* already in tabsToClose and `left` more to close
RECURSIVE maxWalk(_, _, _, _)
maxWalk(sorted, closing, left, s) ==
    IF sorted = <<>> \/ left <= 0 THEN {}
    ELSE LET tab == Head(sorted)
         IN  IF /\ tab.id # 0
                /\ ~tab.active
                /\ tab.id \notin closing
                /\ ~matchesAny(tab, s.whitelist)
             THEN {tab.id} \cup maxWalk(Tail(sorted), closing \cup {tab.id}, left - 1, s)
             ELSE maxWalk(Tail(sorted), closing, left, s)

\* a max-tab pass that closes one tab too many
maxTabsStageOneMore(tabs, closing, s) ==
    LET remainingCount == Len(tabs) - Cardinality(closing)
    IN  IF remainingCount > s.maxTabs
        THEN maxWalk(sortedTabs(tabs), closing, remainingCount - s.maxTabs + 1, s)
        ELSE {}

\* index.ts:231-249
maxTabsStage(tabs, closing, s) ==
    LET remainingCount == Len(tabs) - Cardinality(closing)
    IN  IF remainingCount > s.maxTabs
        THEN maxWalk(sortedTabs(tabs), closing, remainingCount - s.maxTabs, s)
        ELSE {}

\* an add that does not look whether the id is there already
setAddAgain(set, id) == Append(set, id)

\* Set.prototype.add on tabsToClose (index.ts:168), a Set kept in insertion
\* order: index.ts:207, 214, 226, 244
setAdd(set, id) == IF id \in Range(set) THEN set ELSE Append(set, id)

\* index.ts:197-216: tabsToClose after the per-tab pass over `tabs`
RECURSIVE perTabPass(_, _, _, _, _)
perTabPass(tabs, s, map, t, set) ==
    IF tabs = <<>> THEN set
    ELSE LET tab == Head(tabs)
             closes == /\ passesGuards(tab, s)
                       /\ \/ matchesAny(tab, s.blacklist)
                          \/ isIdle(tab, s, map, t)
         IN  perTabPass(Tail(tabs), s, map, t, IF closes THEN setAdd(set, tab.id) ELSE set)

\* index.ts:219-229: tabsToClose after duplicates.forEach over `ids`
RECURSIVE duplicatePass(_, _, _, _)
duplicatePass(ids, tabs, s, set) ==
    IF ids = <<>> THEN set
    ELSE LET k == findIndex(tabs, Head(ids))
             closes == k # 0 /\ ~tabs[k].active /\ ~matchesAny(tabs[k], s.whitelist)
         IN  duplicatePass(Tail(ids), tabs, s, IF closes THEN setAdd(set, Head(ids)) ELSE set)

\* index.ts:239-248: tabsToClose after the loop over `sorted`, `left` more to
\* close
RECURSIVE maxTabsLoop(_, _, _, _)
maxTabsLoop(sorted, left, s, set) ==
    IF sorted = <<>> \/ left <= 0 THEN set
    ELSE LET tab == Head(sorted)
         IN  IF /\ tab.id # 0
                /\ ~tab.active
                /\ tab.id \notin Range(set)
                /\ ~matchesAny(tab, s.whitelist)
             THEN maxTabsLoop(Tail(sorted), left - 1, s, setAdd(set, tab.id))
             ELSE maxTabsLoop(Tail(sorted), left, s, set)

\* index.ts:231-249: tabsToClose after the max-tab check; tabsToClose.size
\* counts the entries
maxTabsPass(tabs, s, set) ==
    LET remainingCount == Len(tabs) - Len(set)
    IN  IF remainingCount > s.maxTabs
        THEN maxTabsLoop(sortedTabs(tabs), remainingCount - s.maxTabs, s, set)
        ELSE set

\* index.ts:168-251: Array.from(tabsToClose) after all passes
finalIdsToClose(tabs, s, map, t) ==
    maxTabsPass(tabs, s,
        duplicatePass(getDuplicateTabs(tabs), tabs, s,
            perTabPass(tabs, s, map, t, <<>>)))

\* index.ts:253-254: the calls of chrome.tabs.remove the run makes
removeCalls(ids) == IF Len(ids) > 0 THEN <<ids>> ELSE <<>>

\* index.ts:194-254: what each stage adds to tabsToClose (blacklist, idle,
\* duplicate, maxTabs), the array getDuplicateTabs returned (duplicates), the
\* set when the max-tab pass starts (beforeMax), the final set, and the calls
\* of chrome.tabs.remove with their arguments (removeCalls)
cleanupStages(tabs, s, map, t) ==
    LET bl == blacklistStage(tabs, s)
        idle == idleStage(tabs, s, map, t)
        dup == duplicateStage(tabs, s)
        before == bl \cup idle \cup dup
        max == maxTabsStage(tabs, before, s)
    IN  [blacklist |-> bl, idle |-> idle, duplicates |-> getDuplicateTabs(tabs),
         duplicate |-> dup, beforeMax |-> before, maxTabs |-> max,
         final |-> before \cup max,
         removeCalls |-> removeCalls(finalIdsToClose(tabs, s, map, t))]

----------------------------------------------------------------------------
(* The extension in the browser: Spec *)

Runs == 1..MaxRuns

BrowserIds == 1..MaxBrowserTabs

NoStages ==
    [blacklist |-> {}, idle |-> {}, duplicates |-> <<>>, duplicate |-> {},
     beforeMax |-> {}, maxTabs |-> {}, final |-> {}, removeCalls |-> <<>>]

NoTab == [id |-> 0, url |-> NoUrl, active |-> FALSE, lastAccessed |-> 0]

\* settings.ts:24-33
DEFAULT_SETTINGS ==
    [enabled |-> FALSE, idleTimeout |-> 30, maxTabs |-> 50, whitelist |-> <<>>,
     blacklist |-> <<>>, notificationsEnabled |-> TRUE]

\* what the options page and the toggle-clean command can have saved
StoredSettings ==
    [enabled : BOOLEAN, idleTimeout : {1}, maxTabs : {1, 3}, whitelist : {<<>>},
     blacklist : {<<HostSubE>>}, notificationsEnabled : BOOLEAN]

\* a getSettings whose fallback has the cleanup switched on
getSettingsFallbackEnabled(ok) ==
    IF ok THEN stored ELSE [DEFAULT_SETTINGS EXCEPT !.enabled = TRUE]

\* a getSettings that never reads the store
getSettingsDefaultsOnly(ok) == DEFAULT_SETTINGS

\* settings.ts:43-51: the stored settings, DEFAULT_SETTINGS when the read fails
getSettings(ok) == IF ok THEN stored ELSE DEFAULT_SETTINGS

\* chrome.tabs.query({}): the open tabs in id order
RECURSIVE queryFrom(_, _)
queryFrom(tabs, i) ==
    IF i > MaxBrowserTabs THEN <<>>
    ELSE IF tabs[i] = NoTab THEN queryFrom(tabs, i + 1)
    ELSE <<tabs[i]>> \o queryFrom(tabs, i + 1)

queryTabs(tabs) == queryFrom(tabs, 1)

\* a call of applyCleanupRules: where it is (pc), its locals, the requests it
\* has made and the requests of the call that failed; pc = "rejected" is a
\* call whose promise rejected
\* no storage.onChanged event is waiting
NoChange == [namespace |-> "none", keys |-> {}]

IdleRun ==
    [pc |-> "idle", settings |-> DEFAULT_SETTINGS, allTabs |-> <<>>,
     closeRequests |-> <<>>, notifications |-> <<>>, iconRequests |-> <<>>,
     failed |-> {}]

\* a catch that throws the error again: the promise of the call rejects
onErrorRethrows(run, what) == [run EXCEPT !.pc = "rejected", !.failed = @ \cup {what}]

\* index.ts:266-268: the catch of applyCleanupRules ends the call
onError(run, what) == [run EXCEPT !.pc = "done", !.failed = @ \cup {what}]

\* a gate that lets every run through
gateOpenAlways(s) == TRUE

\* index.ts:163: the run goes on
gateOpen(s) == s.enabled

\* index.ts:194-265, from the sort to the call of chrome.tabs.remove: the run
\* record after the synchronous pipeline, which is the last use of the snapshot
afterRules(run, map) ==
    LET calls == cleanupStages(run.allTabs, run.settings, map, NowMs).removeCalls
    IN  IF calls # <<>>
        THEN [run EXCEPT !.pc = "remove", !.allTabs = <<>>,
                         !.closeRequests = @ \o calls]
        ELSE [run EXCEPT !.pc = "done", !.allTabs = <<>>]

HostInit ==
    /\ stored \in StoredSettings
    /\ browserTabs = [i \in BrowserIds |-> NoTab]
    /\ warningActive = FALSE
    /\ iconRequested = "none"
    /\ pendingChange = NoChange
    /\ runs = [r \in Runs |-> IdleRun]

Init ==
    /\ allTabs = <<>>
    /\ settings = DEFAULT_SETTINGS
    /\ tabActivityMap = <<>>
    /\ now = NowMs
    /\ tabsToClose = NoStages
    /\ phase = "input"
    /\ matcher = NoMatch
    /\ trackerCalls = <<>>
    /\ initTracking = NoTracking
    /\ HostInit

\* index.ts:19-21
updateTabActivity(map, tabId, t) ==
    [i \in DOMAIN map \cup {tabId} |-> IF i = tabId THEN t ELSE map[i]]

\* a removal that would drop every record, as the reset does
removeTabActivityClearsAll(map, tabId) == <<>>

\* index.ts:10-12
resetTabActivityMap(map) == <<>>

\* index.ts:40-42
removeTabActivity(map, tabId) ==
    [i \in DOMAIN map \ {tabId} |-> map[i]]

\* index.ts:103-106 for one tab, with a seed that ignores lastAccessed
seedRecordWithNow(map, tab, t) ==
    IF tab.id # 0 THEN updateTabActivity(map, tab.id, t) ELSE map

\* index.ts:103-106: tabActivityMap.set(tab.id, tab.lastAccessed || now) for a
\* tab with an id
seedRecord(map, tab, t) ==
    IF tab.id # 0
    THEN updateTabActivity(map, tab.id, IF tab.lastAccessed # 0 THEN tab.lastAccessed ELSE t)
    ELSE map

RECURSIVE seedRecordsFrom(_, _, _, _)
seedRecordsFrom(map, tabs, i, t) ==
    IF i > Len(tabs) THEN map
    ELSE seedRecordsFrom(seedRecord(map, tabs[i], t), tabs, i + 1, t)

\* index.ts:100-107: the forEach over the snapshot, with now = Date.now()
seedRecords(map, tabs, t) == seedRecordsFrom(map, tabs, 1, t)

\* the slot a new call takes: the first one not in use
FreeSlot(r) ==
    /\ runs[r].pc = "idle"
    /\ \A q \in 1..(r - 1) : runs[q].pc # "idle"

\* index.ts:160-162: a trigger (alarm, install, startup, message, command)
\* calls applyCleanupRules, which calls getSettings and suspends
StartRun(r) ==
    /\ FreeSlot(r)
    /\ runs' = [runs EXCEPT ![r] = [IdleRun EXCEPT !.pc = "getSettings"]]
    /\ UNCHANGED <<stored, browserTabs, warningActive, iconRequested, pendingChange>>
    /\ UNCHANGED <<tabActivityMap, engineVars>>

\* index.ts:162-172: the settings arrive; the gate; chrome.tabs.query is called
SettingsArrive(r) ==
    /\ runs[r].pc = "getSettings"
    /\ \E ok \in BOOLEAN :
        LET s == getSettings(ok)
        IN  runs' = [runs EXCEPT ![r] =
                [@ EXCEPT !.settings = s,
                          !.failed = IF ok THEN @ ELSE @ \cup {"settings"},
                          !.pc = IF gateOpen(s) THEN "queryTabs" ELSE "done"]]
    /\ UNCHANGED <<stored, browserTabs, warningActive, iconRequested, pendingChange>>
    /\ UNCHANGED <<tabActivityMap, engineVars>>

\* index.ts:172, 266-268: chrome.tabs.query rejects
QueryFails(r) ==
    /\ runs[r].pc = "queryTabs"
    /\ runs' = [runs EXCEPT ![r] = onError(@, "query")]
    /\ UNCHANGED <<stored, browserTabs, warningActive, iconRequested, pendingChange>>
    /\ UNCHANGED <<tabActivityMap, engineVars>>

\* an icon request that always asks for the default icon
iconPathDefaultOnly(enable) == "off"

\* index.ts:78-90: the icon setWarningIcon asks chrome.action.setIcon for, in
\* the synchronous part of the call
iconPath(enable) == IF enable THEN "on" ELSE "off"

\* a threshold at the limit itself
warningThresholdAtLimit(s) == s.maxTabs

\* index.ts:175
warningThreshold(s) == s.maxTabs - 2

\* index.ts:172-192: the snapshot arrives; the warning check; the run suspends
\* in setWarningIcon when the latch changes, otherwise it goes through the
\* rules (index.ts:194-254)
SnapshotArrives(r) ==
    /\ runs[r].pc = "queryTabs"
    /\ LET tabs == queryTabs(browserTabs)
           run == [runs[r] EXCEPT !.allTabs = tabs]
           threshold == warningThreshold(run.settings)
       IN  IF threshold > 0 /\ Len(tabs) >= threshold
           THEN IF ~warningActive
                THEN /\ warningActive' = TRUE
                     /\ iconRequested' = iconPath(TRUE)
                     /\ runs' = [runs EXCEPT ![r] =
                            [run EXCEPT !.pc = "iconOn",
                                        !.iconRequests = Append(@, iconPath(TRUE))]]
                ELSE /\ runs' = [runs EXCEPT ![r] = afterRules(run, tabActivityMap)]
                     /\ UNCHANGED <<warningActive, iconRequested>>
           ELSE IF Len(tabs) < threshold /\ warningActive
                THEN /\ warningActive' = FALSE
                     /\ iconRequested' = iconPath(FALSE)
                     /\ runs' = [runs EXCEPT ![r] =
                            [run EXCEPT !.pc = "iconOff",
                                        !.iconRequests = Append(@, iconPath(FALSE))]]
                ELSE /\ runs' = [runs EXCEPT ![r] = afterRules(run, tabActivityMap)]
                     /\ UNCHANGED <<warningActive, iconRequested>>
    /\ UNCHANGED <<stored, browserTabs, pendingChange>>
    /\ UNCHANGED <<tabActivityMap, engineVars>>

\* a setWarningIcon that lets the rejection of chrome.action.setIcon through to
\* the catch of applyCleanupRules
setWarningIconUncaught(run, ok) ==
    IF ok THEN run ELSE onError(run, "icon")

\* index.ts:89-93: chrome.action.setIcon settles; setWarningIcon catches a
\* rejection and returns
setWarningIcon(run, ok) ==
    IF ok THEN run ELSE [run EXCEPT !.failed = @ \cup {"icon"}]

\* index.ts:181-186, 258-263: chrome.notifications.create is called and its
\* promise dropped; when the request fails the promise rejects unobserved
notify(run, what, ok) ==
    [run EXCEPT !.notifications = Append(@, what),
                !.failed = IF ok THEN @ ELSE @ \cup {what}]

\* index.ts:179-187, 191: setWarningIcon returns; the warning notification;
\* then the rules
IconSettles(r) ==
    /\ runs[r].pc \in {"iconOn", "iconOff"}
    /\ \E okIcon, okNotification \in BOOLEAN :
        LET back == setWarningIcon(runs[r], okIcon)
            run == IF back.pc = "iconOn" /\ back.settings.notificationsEnabled
                   THEN notify(back, "warning", okNotification)
                   ELSE back
        IN  runs' = [runs EXCEPT ![r] =
                IF back.pc = "done" THEN back ELSE afterRules(run, tabActivityMap)]
    /\ UNCHANGED <<stored, browserTabs, warningActive, iconRequested, pendingChange>>
    /\ UNCHANGED <<tabActivityMap, engineVars>>

\* index.ts:254-264 and 322-324: chrome.tabs.remove resolves, the tabs are gone
\* and their onRemoved events delivered; the notification
RemoveResolves(r) ==
    /\ runs[r].pc = "remove"
    /\ LET ids == Range(runs[r].closeRequests[1])
       IN  /\ browserTabs' = [i \in BrowserIds |->
                                IF i \in ids THEN NoTab ELSE browserTabs[i]]
           /\ tabActivityMap' = [i \in DOMAIN tabActivityMap \ ids |-> tabActivityMap[i]]
    /\ \E okNotification \in BOOLEAN :
        runs' = [runs EXCEPT ![r] =
            IF runs[r].settings.notificationsEnabled
            THEN notify([@ EXCEPT !.pc = "done"], "cleaned", okNotification)
            ELSE [@ EXCEPT !.pc = "done"]]
    /\ UNCHANGED <<stored, warningActive, iconRequested, pendingChange>>
    /\ UNCHANGED engineVars

\* index.ts:254, 266-268: chrome.tabs.remove rejects
RemoveFails(r) ==
    /\ runs[r].pc = "remove"
    /\ runs' = [runs EXCEPT ![r] = onError(@, "remove")]
    /\ UNCHANGED <<stored, browserTabs, warningActive, iconRequested, pendingChange>>
    /\ UNCHANGED <<tabActivityMap, engineVars>>

\* the promise of applyCleanupRules has settled; the slot is free again
RunReturns(r) ==
    /\ runs[r].pc = "done"
    /\ runs' = [runs EXCEPT ![r] = IdleRun]
    /\ UNCHANGED <<stored, browserTabs, warningActive, iconRequested, pendingChange>>
    /\ UNCHANGED <<tabActivityMap, engineVars>>

\* the page the browser opens in the tab with this id: the first tab is on the
\* blacklisted host, the others on a host that no list matches
TabUrl(id) == IF id = 1 THEN UrlSubE ELSE UrlFakeE

\* index.ts:314-319: the browser opens a tab in the background; onCreated
\* records its activity and starts a run
TabCreated(id, r) ==
    /\ browserTabs[id] = NoTab
    /\ FreeSlot(r)
    /\ browserTabs' = [browserTabs EXCEPT ![id] =
            [id |-> id, url |-> TabUrl(id), active |-> FALSE, lastAccessed |-> NowMs]]
    /\ tabActivityMap' = updateTabActivity(tabActivityMap, id, NowMs)
    /\ runs' = [runs EXCEPT ![r] = [IdleRun EXCEPT !.pc = "getSettings"]]
    /\ UNCHANGED <<stored, warningActive, iconRequested, pendingChange>>
    /\ UNCHANGED engineVars

\* index.ts:301-303: the user switches to a tab
TabActivated(id) ==
    /\ browserTabs[id] # NoTab
    /\ ~browserTabs[id].active
    /\ browserTabs' = [i \in BrowserIds |->
            IF browserTabs[i] = NoTab THEN NoTab
            ELSE [browserTabs[i] EXCEPT !.active = (i = id)]]
    /\ tabActivityMap' = updateTabActivity(tabActivityMap, id, NowMs)
    /\ UNCHANGED <<stored, warningActive, iconRequested, pendingChange, runs>>
    /\ UNCHANGED engineVars

\* index.ts:322-324: the user closes a tab
TabRemoved(id) ==
    /\ browserTabs[id] # NoTab
    /\ browserTabs' = [browserTabs EXCEPT ![id] = NoTab]
    /\ tabActivityMap' = removeTabActivity(tabActivityMap, id)
    /\ UNCHANGED <<stored, warningActive, iconRequested, pendingChange, runs>>
    /\ UNCHANGED engineVars

\* settings.ts:62-68 and index.ts:344-354: the options page or the
\* toggle-clean command saves one setting (the theme is not part of the
\* modelled settings); the browser queues onChanged
SettingSaved(key) ==
    /\ pendingChange = NoChange
    /\ stored' = CASE key = "enabled" -> [stored EXCEPT !.enabled = ~@]
                   [] key = "maxTabs" -> [stored EXCEPT !.maxTabs = IF @ = 1 THEN 3 ELSE 1]
                   [] key = "theme" -> stored
    /\ pendingChange' = [namespace |-> "local", keys |-> {key}]
    /\ UNCHANGED <<browserTabs, warningActive, iconRequested, runs>>
    /\ UNCHANGED <<tabActivityMap, engineVars>>

\* a test that only looks at maxTabs
resetsWarningMaxTabsOnly(changes) == "maxTabs" \in changes

\* index.ts:332: the change resets the warning
resetsWarning(changes) == "maxTabs" \in changes \/ "enabled" \in changes

\* index.ts:331-336: whether the handler resets the warning
handleStorageChanged(changes, namespace) ==
    IF namespace = "local"
    THEN IF resetsWarning(changes) THEN TRUE ELSE FALSE
    ELSE FALSE

\* index.ts:327-341: onChanged is delivered
StorageChanged ==
    /\ pendingChange # NoChange
    /\ pendingChange' = NoChange
    /\ IF handleStorageChanged(pendingChange.keys, pendingChange.namespace)
       THEN warningActive' = FALSE /\ iconRequested' = iconPath(FALSE)
       ELSE UNCHANGED <<warningActive, iconRequested>>
    /\ UNCHANGED <<stored, browserTabs, runs>>
    /\ UNCHANGED <<tabActivityMap, engineVars>>

Next ==
    \/ \E r \in Runs : StartRun(r)
    \/ \E r \in Runs : SettingsArrive(r)
    \/ \E r \in Runs : QueryFails(r)
    \/ \E r \in Runs : SnapshotArrives(r)
    \/ \E r \in Runs : IconSettles(r)
    \/ \E r \in Runs : RemoveResolves(r)
    \/ \E r \in Runs : RemoveFails(r)
    \/ \E r \in Runs : RunReturns(r)
    \/ \E id \in BrowserIds, r \in Runs : TabCreated(id, r)
    \/ \E id \in BrowserIds : TabActivated(id)
    \/ \E id \in BrowserIds : TabRemoved(id)
    \/ \E key \in {"enabled", "maxTabs", "theme"} : SettingSaved(key)
    \/ StorageChanged

Spec == Init /\ [][Next]_vars

----------------------------------------------------------------------------
(* The rule engine on arbitrary inputs: SpecRules *)

\* times a tab may carry: none, idle beyond one minute, exactly one minute ago
TimeOld == NowMs - 60001
TimeNew == NowMs - 60000
TabTimes == {0, TimeOld, TimeNew}

\* the i-th tab of a snapshot: its id is i, or one of `ids`
TabsAt(i, ids) ==
    [id : {i} \cup ids, url : {NoUrl, UrlSubE, UrlFakeE}, active : BOOLEAN,
     lastAccessed : TabTimes]

\* the tabs of f with the position as id, for those that have one
Relabel(f) ==
    [i \in DOMAIN f |-> IF f[i].id = 0 THEN f[i] ELSE [f[i] EXCEPT !.id = i]]

\* snapshots of at most maxLen tabs with unique ids, the i-th tab from
\* TabsAt(i, ids); ids = {0} lets ids be missing
Snapshots(maxLen, ids) ==
    UNION {{Relabel(f) : f \in [1..n -> TabsAt(1, ids)]} : n \in 0..maxLen}

\* UrlSubE matches the whitelist pattern as a subdomain and the blacklist
\* pattern exactly; UrlFakeE matches neither
Whitelists == {<<>>, <<HostFakeE \o HostE, HostE>>}
Blacklists == {<<>>, <<HostSubE>>}

SettingsOf(timeouts, limits) ==
    [enabled : {TRUE}, idleTimeout : timeouts, maxTabs : limits,
     whitelist : Whitelists, blacklist : Blacklists,
     notificationsEnabled : {FALSE}]

\* tabs whose url is missing or does not parse, next to one that does
TabsWithoutDomain ==
    [id : {1}, url : {NoUrl, UrlBad, UrlSubE}, active : BOOLEAN, lastAccessed : TabTimes]

\* lists that hold an empty pattern
ListsWithEmptyPattern == {<<>>, <<<<>>, HostSubE>>}

\* trackers over the ids of a snapshot of at most maxLen tabs
Trackers(maxLen) ==
    UNION {[ids -> {TimeOld, TimeNew}] : ids \in SUBSET (1..maxLen)}

\* the inputs of the pipeline:
\*  - up to MaxTabCount tabs, all with ids, an empty tracker, a one-minute timeout;
\*  - up to MaxSmallCount tabs, some without id, an empty tracker, a one-minute
\*    timeout;
\*  - up to MaxSmallCount tabs, all with ids, any tracker, a timeout of zero or
\*    one minute;
\*  - up to MaxSmallCount tabs, all with ids, with urls that are missing or do
\*    not parse, lists with an empty pattern, an empty tracker
InitRules ==
    /\ \/ /\ allTabs \in Snapshots(MaxTabCount, {})
          /\ settings \in SettingsOf({1}, 0..(MaxTabCount - 1))
          /\ tabActivityMap = <<>>
       \/ /\ allTabs \in Snapshots(MaxSmallCount, {0})
          /\ settings \in SettingsOf({1}, 0..(MaxSmallCount - 1))
          /\ tabActivityMap = <<>>
       \/ /\ allTabs \in Snapshots(MaxSmallCount, {})
          /\ settings \in SettingsOf({0, 1}, 0..(MaxSmallCount - 1))
          /\ tabActivityMap \in Trackers(MaxSmallCount)
       \/ /\ \E n \in 0..MaxSmallCount : \E f \in [1..n -> TabsWithoutDomain] :
                allTabs = Relabel(f)
          /\ settings \in [enabled : {TRUE}, idleTimeout : {1},
                            maxTabs : 0..(MaxSmallCount - 1),
                            whitelist : ListsWithEmptyPattern,
                            blacklist : ListsWithEmptyPattern,
                            notificationsEnabled : {FALSE}]
          /\ tabActivityMap = <<>>
    /\ now = NowMs
    /\ tabsToClose = NoStages
    /\ phase = "input"
    /\ matcher = NoMatch
    /\ trackerCalls = <<>>
    /\ initTracking = NoTracking
    /\ stored = DEFAULT_SETTINGS
    /\ browserTabs = [i \in BrowserIds |-> NoTab]
    /\ warningActive = FALSE
    /\ iconRequested = "none"
    /\ pendingChange = NoChange
    /\ runs = [r \in Runs |-> IdleRun]

\* one evaluation of the pipeline
Evaluate ==
    /\ phase = "input"
    /\ tabsToClose' = cleanupStages(allTabs, settings, tabActivityMap, now)
    /\ phase' = "evaluated"
    /\ UNCHANGED <<allTabs, settings, tabActivityMap, now, matcher, trackerCalls, initTracking>>
    /\ UNCHANGED hostVars

NextRules == Evaluate

SpecRules == InitRules /\ [][NextRules]_vars

----------------------------------------------------------------------------
(* The duplicate detector called on its own: SpecDup *)

\* the i-th tab of a snapshot given to getDuplicateTabs
DupTabsAt(i) ==
    [id : {i}, url : {NoUrl, UrlFakeE, UrlFakeEQuery, UrlFakeEFragment},
     active : BOOLEAN, lastAccessed : TabTimes]

\* the snapshots of at most MaxTabCount tabs, the i-th from DupTabsAt(i)
InitDup ==
    /\ \E n \in 0..MaxTabCount : \E f \in [1..n -> DupTabsAt(1)] : allTabs = Relabel(f)
    /\ settings = DEFAULT_SETTINGS
    /\ tabActivityMap = <<>>
    /\ now = NowMs
    /\ tabsToClose = NoStages
    /\ phase = "input"
    /\ matcher = NoMatch
    /\ trackerCalls = <<>>
    /\ initTracking = NoTracking
    /\ stored = DEFAULT_SETTINGS
    /\ browserTabs = [i \in BrowserIds |-> NoTab]
    /\ warningActive = FALSE
    /\ iconRequested = "none"
    /\ pendingChange = NoChange
    /\ runs = [r \in Runs |-> IdleRun]

\* a caller calls getDuplicateTabs(allTabs), a first and a second time
DetectDuplicates ==
    /\ phase \in {"input", "called"}
    /\ LET call == getDuplicateTabsCall(allTabs)
       IN  /\ allTabs' = call.tabs
           /\ tabsToClose' = [NoStages EXCEPT !.duplicates = call.duplicates]
    /\ phase' = IF phase = "input" THEN "called" ELSE "calledTwice"
    /\ UNCHANGED <<settings, tabActivityMap, now, matcher, trackerCalls, initTracking>>
    /\ UNCHANGED hostVars

NextDup == DetectDuplicates

SpecDup == InitDup /\ [][NextDup]_vars

----------------------------------------------------------------------------
(* handleStorageChanged called on its own: SpecStorage *)

StorageAreas == {"local", "sync", "managed", "session"}

SettingKeys == {"maxTabs", "enabled", "theme"}

\* the events chrome.storage.onChanged can deliver
StorageChanges == [namespace : StorageAreas, keys : SUBSET SettingKeys \ {{}}]

InitStorage ==
    /\ pendingChange \in StorageChanges
    /\ warningActive \in BOOLEAN
    /\ iconRequested \in {"none", "on", "off"}
    /\ allTabs = <<>>
    /\ settings = DEFAULT_SETTINGS
    /\ tabActivityMap = <<>>
    /\ now = NowMs
    /\ tabsToClose = NoStages
    /\ phase = "input"
    /\ matcher = NoMatch
    /\ trackerCalls = <<>>
    /\ initTracking = NoTracking
    /\ stored = DEFAULT_SETTINGS
    /\ browserTabs = [i \in BrowserIds |-> NoTab]
    /\ runs = [r \in Runs |-> IdleRun]

NextStorage == StorageChanged

SpecStorage == InitStorage /\ [][NextStorage]_vars

----------------------------------------------------------------------------
(* domainMatches called on its own: SpecMatch *)

\* the characters of the domains and patterns: a letter in both cases and the
\* dot
DomainChars == {"a", "A", "."}

Strings(maxLen) == UNION {[1..n -> DomainChars] : n \in 0..maxLen}

InitMatch ==
    /\ matcher \in [domain : Strings(MaxDomainLen), pattern : Strings(MaxPatternLen),
                    result : {FALSE}]
    /\ phase = "input"
    /\ trackerCalls = <<>>
    /\ initTracking = NoTracking
    /\ allTabs = <<>>
    /\ settings = DEFAULT_SETTINGS
    /\ tabActivityMap = <<>>
    /\ now = NowMs
    /\ tabsToClose = NoStages
    /\ stored = DEFAULT_SETTINGS
    /\ browserTabs = [i \in BrowserIds |-> NoTab]
    /\ warningActive = FALSE
    /\ iconRequested = "none"
    /\ pendingChange = NoChange
    /\ runs = [r \in Runs |-> IdleRun]

\* a caller calls domainMatches(domain, pattern)
MatchDomain ==
    /\ phase = "input"
    /\ matcher' = [matcher EXCEPT !.result = domainMatches(matcher.domain, matcher.pattern)]
    /\ phase' = "matched"
    /\ UNCHANGED <<allTabs, settings, tabActivityMap, now, tabsToClose, trackerCalls, initTracking>>
    /\ UNCHANGED hostVars

NextMatch == MatchDomain

SpecMatch == InitMatch /\ [][NextMatch]_vars

----------------------------------------------------------------------------
(* Vocabulary of the properties, stated without the operators of the model *)

Evaluated == phase = "evaluated"

TabIdx == 1..Len(allTabs)

\* d equals p or ends with "." followed by p, both non-empty
SameOrSubdomain(d, p) ==
    /\ d # <<>>
    /\ p # <<>>
    /\ \/ d = p
       \/ \E n \in 1..Len(d) : SubSeq(d, n, Len(d)) = <<".">> \o p

Listed(i, list) ==
    \E k \in 1..Len(list) : SameOrSubdomain(getDomain(allTabs[i].url), list[k])

Whitelisted(i) == Listed(i, settings.whitelist)

Blacklisted(i) == Listed(i, settings.blacklist)

\* the tracked record when there is one, otherwise lastAccessed
KnownActivity(i) ==
    IF allTabs[i].id \in DOMAIN tabActivityMap
    THEN tabActivityMap[allTabs[i].id]
    ELSE allTabs[i].lastAccessed

StageSets ==
    {tabsToClose.blacklist, tabsToClose.idle, tabsToClose.duplicate,
     tabsToClose.maxTabs, tabsToClose.final}

\* the members of the group of url u, as indices of the snapshot
Group(u) == {i \in TabIdx : allTabs[i].url = u}

GroupUrls == {allTabs[i].url : i \in TabIdx} \ {NoUrl}

----------------------------------------------------------------------------
(* C1 *)

\* C1: after the pipeline ran, no stage's set (blacklist, idle, duplicate,
\* max-tab) and not the final close-set holds the id of a tab whose snapshot
\* entry is active.
C1_ActiveNeverClosed ==
    Evaluated =>
        \A i \in TabIdx : allTabs[i].active =>
            \A set \in StageSets : allTabs[i].id \notin set

\* an active tab that is blacklisted, idle and has a same-url twin, in a run
\* over the limit that closes other tabs
C1_Witness ==
    /\ Evaluated
    /\ \E i, j \in TabIdx :
        /\ i # j
        /\ allTabs[i].active /\ allTabs[i].id # 0
        /\ allTabs[i].url = allTabs[j].url /\ allTabs[i].url # NoUrl
        /\ Blacklisted(i) /\ ~Whitelisted(i)
        /\ allTabs[i].lastAccessed = TimeOld
        /\ Len(allTabs) > settings.maxTabs
        /\ allTabs[j].id \in tabsToClose.final

----------------------------------------------------------------------------
(* C2 *)

\* C2: a tab whose domain matches a whitelist pattern, exactly or as a
\* subdomain, is in no stage's set and not in the final close-set, also when
\* the blacklist matches it, it is idle, it is a duplicate and the run is over
\* the limit.
C2_WhitelistedNeverClosed ==
    Evaluated =>
        \A i \in TabIdx : Whitelisted(i) =>
            \A set \in StageSets : allTabs[i].id \notin set

\* a whitelisted, blacklisted, idle, non-active duplicate in a run over the
\* limit
C2_Witness ==
    /\ Evaluated
    /\ \E i, j \in TabIdx :
        /\ i # j
        /\ ~allTabs[i].active /\ allTabs[i].id # 0
        /\ ~allTabs[j].active /\ allTabs[j].id # 0
        /\ allTabs[i].url = allTabs[j].url
        /\ Whitelisted(i) /\ Blacklisted(i)
        /\ allTabs[i].lastAccessed = TimeOld
        /\ allTabs[j].lastAccessed = TimeOld
        /\ Len(allTabs) > settings.maxTabs
        /\ tabsToClose.final = {}

----------------------------------------------------------------------------
(* C4 *)

\* C4: with maxTabs = 0 the max-tab pass adds no tab to the close-set.
C4_ZeroMeansUnlimited ==
    (Evaluated /\ settings.maxTabs = 0) => tabsToClose.maxTabs = {}

----------------------------------------------------------------------------
(* C5 *)

\* C5: every non-active tab with an id whose domain matches a blacklist
\* pattern and no whitelist pattern is added by the blacklist stage and is in
\* the final close-set, whatever its last activity and the idle timeout.
C5_BlacklistedAlwaysClosed ==
    Evaluated =>
        \A i \in TabIdx :
            (allTabs[i].id # 0 /\ ~allTabs[i].active /\ Blacklisted(i) /\ ~Whitelisted(i))
                => /\ allTabs[i].id \in tabsToClose.blacklist
                   /\ allTabs[i].id \in tabsToClose.final

\* a blacklisted tab that is not idle and is closed
C5_Witness ==
    /\ Evaluated
    /\ \E i \in TabIdx :
        /\ allTabs[i].id # 0 /\ ~allTabs[i].active
        /\ Blacklisted(i) /\ ~Whitelisted(i)
        /\ KnownActivity(i) = TimeNew
        /\ settings.idleTimeout = 1
        /\ Len(allTabs) <= settings.maxTabs
        /\ tabsToClose.final = {allTabs[i].id}

----------------------------------------------------------------------------
(* C6 *)

IdleBeyondTimeout(i) ==
    /\ KnownActivity(i) # 0
    /\ now - KnownActivity(i) > settings.idleTimeout * 60000

\* C6: a non-active tab with an id that is neither whitelisted nor blacklisted
\* is added by the idle stage exactly when its known activity (the tracked
\* record, else lastAccessed) is nonzero and more than idleTimeout minutes
\* before now; no tab with known activity 0 is added by the idle stage; with
\* idleTimeout = 0 such a tab with activity strictly before now is added.
C6_IdleRule ==
    Evaluated =>
        /\ \A i \in TabIdx :
            (allTabs[i].id # 0 /\ ~allTabs[i].active /\ ~Whitelisted(i) /\ ~Blacklisted(i))
                => (allTabs[i].id \in tabsToClose.idle <=> IdleBeyondTimeout(i))
        /\ \A i \in TabIdx :
            (allTabs[i].id # 0 /\ KnownActivity(i) = 0)
                => allTabs[i].id \notin tabsToClose.idle
        /\ \A i \in TabIdx :
            (/\ settings.idleTimeout = 0
             /\ allTabs[i].id # 0 /\ ~allTabs[i].active
             /\ ~Whitelisted(i) /\ ~Blacklisted(i)
             /\ KnownActivity(i) # 0 /\ KnownActivity(i) < now)
                => allTabs[i].id \in tabsToClose.idle

\* the tracked record decides against lastAccessed, in both directions, at the
\* one-minute boundary
C6_Witness ==
    /\ Evaluated
    /\ settings.idleTimeout = 1
    /\ \E i, j \in TabIdx :
        /\ allTabs[i].id \in DOMAIN tabActivityMap
        /\ allTabs[i].lastAccessed = TimeNew /\ KnownActivity(i) = TimeOld
        /\ allTabs[i].id \in tabsToClose.idle
        /\ allTabs[j].id \in DOMAIN tabActivityMap
        /\ allTabs[j].lastAccessed = TimeOld /\ KnownActivity(j) = TimeNew
        /\ ~allTabs[j].active
        /\ allTabs[j].id \notin tabsToClose.idle

----------------------------------------------------------------------------
(* C7 *)

\* what the max-tab pass may take: has an id, not active, not whitelisted, not
\* in the close-set when the pass starts
Eligible(i) ==
    /\ allTabs[i].id # 0
    /\ ~allTabs[i].active
    /\ ~Whitelisted(i)
    /\ allTabs[i].id \notin tabsToClose.beforeMax

Min(a, b) == IF a < b THEN a ELSE b

----------------------------------------------------------------------------
(* C8 *)

Kept == {i \in TabIdx : allTabs[i].id \notin tabsToClose.final}

ExtraToClose ==
    (Len(allTabs) - Cardinality(tabsToClose.beforeMax)) - settings.maxTabs

\* C8: after a run with maxTabs > 0 at most maxTabs tabs of the snapshot are
\* outside the close-set, unless every tab outside it is active, whitelisted
\* or without id; and the max-tab pass adds at most extra tabs (none when
\* extra <= 0).
C8_LimitEnforced ==
    Evaluated =>
        /\ settings.maxTabs > 0 =>
            \/ Cardinality(Kept) <= settings.maxTabs
            \/ \A i \in Kept :
                allTabs[i].active \/ Whitelisted(i) \/ allTabs[i].id = 0
        /\ Cardinality(tabsToClose.maxTabs) <=
                (IF ExtraToClose > 0 THEN ExtraToClose ELSE 0)

\* the pass brings the count down to exactly maxTabs and leaves an eligible
\* tab open
C8_Witness ==
    /\ Evaluated
    /\ settings.maxTabs > 0
    /\ tabsToClose.maxTabs # {}
    /\ Cardinality(Kept) = settings.maxTabs
    /\ \E i \in Kept :
        ~allTabs[i].active /\ ~Whitelisted(i) /\ allTabs[i].id # 0

----------------------------------------------------------------------------
(* C9 *)

\* who may be called the keeper of a group: an active member when there is
\* one, otherwise a member with the greatest lastAccessed
MayKeep(u, i) ==
    /\ i \in Group(u)
    /\ IF \E j \in Group(u) : allTabs[j].active
       THEN allTabs[i].active
       ELSE \A j \in Group(u) : allTabs[j].lastAccessed <= allTabs[i].lastAccessed

\* C9 as claimed: in every group of two or more tabs with the same url some
\* keeper is outside the run's final close-set.
C9_KeeperStaysOpen ==
    Evaluated =>
        \A u \in GroupUrls : Cardinality(Group(u)) >= 2 =>
            \E i \in Group(u) : MayKeep(u, i) /\ allTabs[i].id \notin tabsToClose.final

\* C9 as amended: in every group of two or more tabs with the same url the
\* duplicate pass leaves a keeper alone; a keeper in the final close-set was
\* added by the blacklist, idle or max-tab stage.
C9_KeeperNotClosedAsDuplicate ==
    Evaluated =>
        \A u \in GroupUrls : Cardinality(Group(u)) >= 2 =>
            \E i \in Group(u) :
                /\ MayKeep(u, i)
                /\ allTabs[i].id \notin tabsToClose.duplicate
                /\ allTabs[i].id \in tabsToClose.final =>
                    allTabs[i].id \in
                        (tabsToClose.blacklist \cup tabsToClose.idle \cup tabsToClose.maxTabs)

\* a group without active member whose other member is closed as a duplicate
\* while the keeper, which has an id and is not whitelisted, is kept by the
\* duplicate pass and closed by the idle stage
C9_Witness ==
    /\ Evaluated
    /\ \E u \in GroupUrls : \E i, j \in Group(u) :
        /\ i # j
        /\ \A k \in Group(u) : ~allTabs[k].active
        /\ MayKeep(u, i) /\ allTabs[i].id # 0
        /\ allTabs[j].id \in tabsToClose.duplicate
        /\ allTabs[i].id \notin tabsToClose.duplicate
        /\ allTabs[i].id \in tabsToClose.idle

----------------------------------------------------------------------------
(* C10 *)

Returned == Range(tabsToClose.duplicates)

\* C10: in a group with no active member getDuplicateTabs keeps one member
\* with the greatest lastAccessed and returns the id of every other member
\* (that has one), and of the group nothing else.
C10_KeepsMostRecent ==
    Evaluated =>
        \A u \in GroupUrls : (\A j \in Group(u) : ~allTabs[j].active) =>
            \E k \in Group(u) :
                /\ \A j \in Group(u) : allTabs[j].lastAccessed <= allTabs[k].lastAccessed
                /\ allTabs[k].id \notin Returned
                /\ \A j \in Group(u) \ {k} : allTabs[j].id # 0 => allTabs[j].id \in Returned

\* the example of the claim: times low, high, middle for ids 1, 2, 3 of one
\* url give {1, 3}
C10_Witness ==
    /\ Evaluated
    /\ Len(allTabs) = 3
    /\ \A i \in TabIdx :
        allTabs[i].id = i /\ ~allTabs[i].active /\ allTabs[i].url = UrlFakeE
    /\ allTabs[1].lastAccessed = 0
    /\ allTabs[2].lastAccessed = TimeNew
    /\ allTabs[3].lastAccessed = TimeOld
    /\ Returned = {1, 3}

----------------------------------------------------------------------------
(* C11 *)

\* C11: getDuplicateTabs returns the id of no active tab; and in a group with
\* an active member it returns the id of every non-active member that has
\* one, whatever the timestamps.
C11_ActiveIsKeeper ==
    Evaluated =>
        /\ \A i \in TabIdx : allTabs[i].active => allTabs[i].id \notin Returned
        /\ \A u \in GroupUrls : (\E k \in Group(u) : allTabs[k].active) =>
            \A j \in Group(u) :
                (~allTabs[j].active /\ allTabs[j].id # 0) => allTabs[j].id \in Returned

\* the example of the claim: the active tab is older than its non-active twin,
\* and only the twin is returned
C11_Witness ==
    /\ Evaluated
    /\ Len(allTabs) = 2
    /\ allTabs[1].id = 1 /\ allTabs[1].active /\ allTabs[1].lastAccessed = TimeOld
    /\ allTabs[2].id = 2 /\ ~allTabs[2].active /\ allTabs[2].lastAccessed = TimeNew
    /\ allTabs[1].url = allTabs[2].url /\ allTabs[1].url # NoUrl
    /\ Returned = {2}

----------------------------------------------------------------------------
(* C12 *)

\* how many entries of the returned array are ids of members of the group
ReturnedOf(u) ==
    Cardinality({p \in 1..Len(tabsToClose.duplicates) :
        \E i \in Group(u) : allTabs[i].id = tabsToClose.duplicates[p]})

ActiveIn(u) == Cardinality({i \in Group(u) : allTabs[i].active})

\* C12: for a group of n >= 2 tabs that all have ids, with k active members,
\* the returned array holds exactly n - max(1, k) entries for the group, no
\* entry twice.
C12_OneKeeperPerGroup ==
    Evaluated =>
        /\ \A u \in GroupUrls :
            (Cardinality(Group(u)) >= 2 /\ \A i \in Group(u) : allTabs[i].id # 0) =>
                ReturnedOf(u) =
                    Cardinality(Group(u)) - (IF ActiveIn(u) > 1 THEN ActiveIn(u) ELSE 1)
        /\ \A p, q \in 1..Len(tabsToClose.duplicates) :
            p # q => tabsToClose.duplicates[p] # tabsToClose.duplicates[q]

\* a group of three with two active members returns one id; beside it the
\* case of three non-active members is reached too (C10_Witness)
C12_Witness ==
    /\ Evaluated
    /\ Len(allTabs) = 3
    /\ \A i \in TabIdx : allTabs[i].id = i /\ allTabs[i].url = UrlFakeE
    /\ ~allTabs[1].active /\ allTabs[2].active /\ allTabs[3].active
    /\ tabsToClose.duplicates = <<1>>

----------------------------------------------------------------------------
(* C13 *)

Detected == phase \in {"called", "calledTwice"}

\* C13: every id getDuplicateTabs returns is the id of a tab with a url, and
\* some other tab of the input has exactly that url string: nothing is
\* returned for a tab without url, for an empty input, for a group of one, or
\* for tabs whose urls differ in the query string or the fragment only.
C13_ExactUrlEquality ==
    Detected =>
        \A p \in 1..Len(tabsToClose.duplicates) :
            \E i \in TabIdx :
                /\ allTabs[i].id = tabsToClose.duplicates[p]
                /\ allTabs[i].url # NoUrl
                /\ \E j \in TabIdx \ {i} : allTabs[j].url = allTabs[i].url

\* a page, the same page with a query string and the same page with a
\* fragment, none active: nothing is returned
C13_Witness ==
    /\ Detected
    /\ Len(allTabs) = 3
    /\ allTabs[1].url = UrlFakeEFragment
    /\ allTabs[2].url = UrlFakeE
    /\ allTabs[3].url = UrlFakeEQuery
    /\ \A i \in TabIdx : ~allTabs[i].active
    /\ tabsToClose.duplicates = <<>>

----------------------------------------------------------------------------
(* C14 *)

----------------------------------------------------------------------------
(* C15 *)

\* C15: the run calls chrome.tabs.remove at most once; it calls it exactly
\* when the close-set is not empty, and the list it passes holds every id of
\* the close-set, each once, also for a tab that several rules matched.
C15_OneCloseRequest ==
    Evaluated =>
        LET calls == tabsToClose.removeCalls
        IN  /\ Len(calls) <= 1
            /\ Len(calls) = 1 <=> tabsToClose.final # {}
            /\ Len(calls) = 1 =>
                /\ Range(calls[1]) = tabsToClose.final
                /\ \A p, q \in 1..Len(calls[1]) : p # q => calls[1][p] # calls[1][q]

\* a tab that the idle rule and the duplicate rule both matched, closed
\* together with a tab of the max-tab rule: the request lists each of them once
C15_Witness ==
    /\ Evaluated
    /\ \E i \in TabIdx :
        /\ allTabs[i].id \in tabsToClose.idle \cap tabsToClose.duplicate
        /\ tabsToClose.maxTabs # {}
        /\ Len(tabsToClose.removeCalls) = 1
        /\ Len(tabsToClose.removeCalls[1]) = 2
        /\ Cardinality(tabsToClose.final) = 2

----------------------------------------------------------------------------
(* C3 *)

\* C3: a run whose fetched settings have enabled = false ends at the gate: the
\* step that receives the settings issues no close request, no notification
\* and no icon request, leaves warningActive, the icon, the tabs and the
\* activity records unchanged, and the run does nothing afterwards but return.
C3_DisabledRunDoesNothing ==
    [][\A r \in Runs :
        /\ (/\ runs[r].pc = "getSettings"
            /\ runs'[r].pc # "getSettings"
            /\ ~runs'[r].settings.enabled)
            => /\ runs'[r].pc = "done"
               /\ runs'[r].closeRequests = <<>>
               /\ runs'[r].notifications = <<>>
               /\ runs'[r].iconRequests = <<>>
               /\ UNCHANGED <<warningActive, iconRequested, browserTabs, tabActivityMap>>
        /\ (/\ runs[r].pc = "done"
            /\ ~runs[r].settings.enabled
            /\ runs'[r] # runs[r])
            => runs'[r] = IdleRun
      ]_vars

\* a run stopped at the gate by the stored enabled = false, while the
\* blacklisted tab is open and not active and the tab count is at the warning
\* threshold of the stored limit
C3_Witness ==
    \E r \in Runs :
        /\ runs[r].pc = "done"
        /\ runs[r].settings = stored
        /\ ~stored.enabled
        /\ stored.maxTabs = 3
        /\ stored.notificationsEnabled
        /\ browserTabs[1] # NoTab /\ ~browserTabs[1].active
        /\ ~warningActive
        /\ runs[r].closeRequests = <<>>

----------------------------------------------------------------------------
(* C16 *)

FetchFailures == {"settings", "query"}

\* C16: the step in which a run learns that reading the settings or querying
\* the tabs failed ends the run as a settled call (not a rejected one), with no
\* close request, no notification and no icon request made, and leaves
\* warningActive, the icon, the tabs and the activity records as they were;
\* afterwards the run does nothing but return.
C16_FailedFetchAborts ==
    [][\A r \in Runs :
        /\ (/\ runs[r].failed \cap FetchFailures = {}
            /\ runs'[r].failed \cap FetchFailures # {})
            => /\ runs'[r].pc = "done"
               /\ runs'[r].closeRequests = <<>>
               /\ runs'[r].notifications = <<>>
               /\ runs'[r].iconRequests = <<>>
               /\ UNCHANGED <<warningActive, iconRequested, browserTabs, tabActivityMap>>
        /\ (/\ runs[r].failed \cap FetchFailures # {}
            /\ runs'[r] # runs[r])
            => runs'[r] = IdleRun
      ]_vars

\* one run ended by a failed read of the settings and one by a failed query,
\* while the stored settings are enabled, the blacklisted tab is open and not
\* active and the tab count is at the warning threshold
C16_Witness ==
    \E r, q \in Runs :
        /\ runs[r].pc = "done" /\ runs[r].failed = {"settings"}
        /\ runs[q].pc = "done" /\ runs[q].failed = {"query"}
        /\ runs[q].settings = stored
        /\ stored.enabled /\ stored.maxTabs = 3 /\ stored.notificationsEnabled
        /\ browserTabs[1] # NoTab /\ ~browserTabs[1].active
        /\ ~warningActive

----------------------------------------------------------------------------
(* C17 *)

\* the close-set of the snapshot the run holds
CloseSet(r) ==
    cleanupStages(runs[r].allTabs, runs[r].settings, tabActivityMap, NowMs).final

\* C17: when the icon request or the warning notification of a run failed and
\* the close-set of its snapshot is not empty, the run still goes on to call
\* chrome.tabs.remove, once, with that close-set; and when the notification
\* after the close failed, the tabs of the close request stay closed and the
\* request stays made.
C17_SideEffectFailureKeepsClose ==
    [][\A r \in Runs :
        /\ (/\ runs[r].pc \in {"iconOn", "iconOff"}
            /\ runs'[r].pc # runs[r].pc
            /\ runs'[r].failed \cap {"icon", "warning"} # {}
            /\ CloseSet(r) # {})
            => /\ runs'[r].pc = "remove"
               /\ Len(runs'[r].closeRequests) = 1
               /\ Range(runs'[r].closeRequests[1]) = CloseSet(r)
        /\ (/\ runs[r].pc = "remove"
            /\ "cleaned" \in runs'[r].failed)
            => /\ runs'[r].closeRequests = runs[r].closeRequests
               /\ \A id \in Range(runs[r].closeRequests[1]) : browserTabs'[id] = NoTab
      ]_vars

\* a run whose icon request and both notifications failed and whose close
\* request was made and carried out
C17_Witness ==
    \E r \in Runs :
        /\ runs[r].pc = "done"
        /\ runs[r].failed = {"icon", "warning", "cleaned"}
        /\ runs[r].iconRequests = <<"on">>
        /\ runs[r].closeRequests = << <<1>> >>
        /\ browserTabs[1] = NoTab

----------------------------------------------------------------------------
(* C18 *)

\* the number of open tabs, which is the length of a snapshot taken now
TabCount == Cardinality({i \in BrowserIds : browserTabs[i] # NoTab})

\* the step in which run r receives its snapshot
SnapshotStep(r) ==
    /\ runs[r].pc = "queryTabs"
    /\ runs'[r].pc # "queryTabs"
    /\ "query" \notin runs'[r].failed

RaiseDue(r) ==
    /\ runs[r].settings.maxTabs - 2 > 0
    /\ TabCount >= runs[r].settings.maxTabs - 2
    /\ ~warningActive

ClearDue(r) ==
    /\ TabCount < runs[r].settings.maxTabs - 2
    /\ warningActive

WarningRequested(r) ==
    runs'[r].notifications = Append(runs[r].notifications, "warning")

\* C18: a run that receives its snapshot raises the warning (warningActive
\* becomes true, icon-on is requested) exactly when maxTabs - 2 > 0, the tab
\* count is at least maxTabs - 2 and warningActive is false; it clears it
\* (warningActive becomes false, icon-off is requested) exactly when the count
\* is below maxTabs - 2 and warningActive is true; otherwise it touches neither.
\* The run that raised, and no other, requests the warning notification, when
\* its notificationsEnabled is set.  warningActive changes in no other step
\* than these and the delivery of a settings change, so while the count stays
\* at or above the threshold and the settings stay, one notification at most.
C18_WarningLatch ==
    [][/\ \A r \in Runs : SnapshotStep(r) =>
            /\ RaiseDue(r) =>
                /\ warningActive' /\ iconRequested' = "on"
                /\ runs'[r].iconRequests = Append(runs[r].iconRequests, "on")
            /\ ClearDue(r) =>
                /\ ~warningActive' /\ iconRequested' = "off"
                /\ runs'[r].iconRequests = Append(runs[r].iconRequests, "off")
            /\ (~RaiseDue(r) /\ ~ClearDue(r)) =>
                /\ UNCHANGED <<warningActive, iconRequested>>
                /\ runs'[r].iconRequests = runs[r].iconRequests
            /\ ~WarningRequested(r)
       /\ \A r \in Runs : (runs'[r] # runs[r] /\ ~SnapshotStep(r)) =>
            /\ runs'[r].iconRequests \in {runs[r].iconRequests, <<>>}
            /\ WarningRequested(r) <=>
                /\ runs[r].iconRequests = <<"on">>
                /\ runs[r].pc = "iconOn"
                /\ runs[r].settings.notificationsEnabled
       /\ warningActive' # warningActive =>
            \/ \E r \in Runs : SnapshotStep(r)
            \/ pendingChange # pendingChange'
      ]_vars

\* while the warning is up, one run passed the check at or above the threshold
\* without raising it again and without a notification, and then, all tabs
\* gone, another run cleared it
C18_Witness ==
    \E r, q \in Runs :
        /\ runs[q].pc = "remove"
        /\ runs[q].settings.maxTabs = 3 /\ runs[q].settings.notificationsEnabled
        /\ runs[q].iconRequests = <<>> /\ runs[q].notifications = <<>>
        /\ runs[r].pc = "iconOff"
        /\ runs[r].iconRequests = <<"off">>
        /\ runs[r].settings = runs[q].settings
        /\ ~warningActive /\ iconRequested = "off"
        /\ TabCount = 0

----------------------------------------------------------------------------
(* C19 *)

\* C19: the delivery of a storage change sets warningActive to false and
\* requests icon-off when the namespace is 'local' and maxTabs or enabled is
\* among the changed keys; for every other event it leaves warningActive and
\* the icon as they were.
C19_StorageChangeResetsWarning ==
    [][(pendingChange # NoChange /\ pendingChange' = NoChange) =>
            IF /\ pendingChange.namespace = "local"
               /\ pendingChange.keys \cap {"maxTabs", "enabled"} # {}
            THEN ~warningActive' /\ iconRequested' = "off"
            ELSE UNCHANGED <<warningActive, iconRequested>>
      ]_vars

\* an event has been delivered and the warning is still up, with the yellow
\* icon
C19_Witness ==
    /\ pendingChange = NoChange
    /\ warningActive
    /\ iconRequested = "on"
    /\ runs = [r \in Runs |-> IdleRun]
    /\ browserTabs = [i \in BrowserIds |-> NoTab]

----------------------------------------------------------------------------
(* C20 *)

\* C20: domainMatches(D, P) returns true exactly when D and P are not empty
\* and D is P or D ends with "." followed by P, compared character by
\* character with the case kept; a bare textual suffix, a pattern that is a
\* prefix of D, or a difference in case gives false.
C20_ExactOrSubdomain ==
    phase = "matched" =>
        /\ matcher.result <=> SameOrSubdomain(matcher.domain, matcher.pattern)
        /\ (matcher.domain = <<"a", "a">> /\ matcher.pattern = <<"a">>) => ~matcher.result
        /\ (matcher.domain = <<"a", ".", "A">> /\ matcher.pattern = <<"a">>) => ~matcher.result
        /\ (matcher.domain = <<"A", ".", "a">> /\ matcher.pattern = <<"A">>) => ~matcher.result
        /\ (matcher.domain = <<"A">> /\ matcher.pattern = <<"a">>) => ~matcher.result

\* a subdomain two levels down matches
C20_Witness ==
    /\ phase = "matched"
    /\ matcher.domain = <<"A", ".", "a", ".", "a">>
    /\ matcher.pattern = <<"a">>
    /\ matcher.result

-----------------------------------------------------------------------------
(* The activity tracker under any sequence of calls (index.ts:10-42): SpecActivity *)

\* the tabs getLastActivity is asked about: with and without an id, with and
\* without lastAccessed
ProbeTabs ==
    [id : {0} \cup BrowserIds, url : {UrlE}, active : {FALSE}, lastAccessed : {0, TimeOld}]

InitActivity ==
    /\ trackerCalls = <<>>
    /\ tabActivityMap = <<>>
    /\ now = NowMs
    /\ phase = "input"
    /\ matcher = NoMatch
    /\ initTracking = NoTracking
    /\ allTabs = <<>>
    /\ settings = DEFAULT_SETTINGS
    /\ tabsToClose = NoStages
    /\ stored = DEFAULT_SETTINGS
    /\ browserTabs = [i \in BrowserIds |-> NoTab]
    /\ warningActive = FALSE
    /\ iconRequested = "none"
    /\ pendingChange = NoChange
    /\ runs = [r \in Runs |-> IdleRun]

\* what stays as it is when the tracker is called
trackerFrame ==
    /\ UNCHANGED <<allTabs, settings, tabsToClose, phase, matcher, initTracking>>
    /\ UNCHANGED hostVars

\* a caller calls updateTabActivity(id); Date.now() has moved on by d since
\* the call before
CallUpdate(id) ==
    /\ Len(trackerCalls) < MaxCalls
    /\ \E d \in 0..1 :
        /\ now' = now + d
        /\ tabActivityMap' = updateTabActivity(tabActivityMap, id, now + d)
        /\ trackerCalls' = Append(trackerCalls, [op |-> "update", id |-> id, time |-> now + d])
    /\ trackerFrame

\* a caller calls removeTabActivity(id)
CallRemove(id) ==
    /\ Len(trackerCalls) < MaxCalls
    /\ tabActivityMap' = removeTabActivity(tabActivityMap, id)
    /\ trackerCalls' = Append(trackerCalls, [op |-> "remove", id |-> id, time |-> now])
    /\ UNCHANGED now
    /\ trackerFrame

\* a caller calls resetTabActivityMap()
CallReset ==
    /\ Len(trackerCalls) < MaxCalls
    /\ tabActivityMap' = resetTabActivityMap(tabActivityMap)
    /\ trackerCalls' = Append(trackerCalls, [op |-> "reset", id |-> 0, time |-> now])
    /\ UNCHANGED now
    /\ trackerFrame

NextActivity ==
    \/ \E id \in BrowserIds : CallUpdate(id)
    \/ \E id \in BrowserIds : CallRemove(id)
    \/ CallReset

SpecActivity == InitActivity /\ [][NextActivity]_vars

\* the calls of the log that still count for an id: the updates of that id
\* with no removal of that id and no reset after them
LiveUpdates(log, id) ==
    {i \in 1..Len(log) :
        /\ log[i].op = "update"
        /\ log[i].id = id
        /\ \A j \in (i + 1)..Len(log) :
            /\ log[j].op # "reset"
            /\ ~(log[j].op = "remove" /\ log[j].id = id)}

Max(S) == CHOOSE x \in S : \A y \in S : y <= x

\* what the calls made so far say the last activity of a tab is
TrackedTime(tab, log) ==
    IF tab.id # 0 /\ LiveUpdates(log, tab.id) # {}
    THEN log[Max(LiveUpdates(log, tab.id))].time
    ELSE tab.lastAccessed

\* the call a step makes on the tracker
LastCall == trackerCalls'[Len(trackerCalls')]

\* C21: after every call on the tracker, getLastActivity(tab) is the time of
\* the latest update of tab.id not followed by a removal of that id or a
\* reset, else tab.lastAccessed (0 when absent); removing an id that has no
\* record changes nothing; an update or a removal of one id leaves the
\* records of the other ids as they were
C21_TrackerContract ==
    [][trackerCalls' # trackerCalls =>
        /\ \A tab \in ProbeTabs :
            getLastActivity(tab, tabActivityMap') = TrackedTime(tab, trackerCalls')
        /\ (LastCall.op = "remove" /\ LastCall.id \notin DOMAIN tabActivityMap)
            => tabActivityMap' = tabActivityMap
        /\ LastCall.op \in {"update", "remove"} =>
            \A other \in BrowserIds \ {LastCall.id} :
                /\ other \in DOMAIN tabActivityMap' <=> other \in DOMAIN tabActivityMap
                /\ other \in DOMAIN tabActivityMap =>
                    tabActivityMap'[other] = tabActivityMap[other]]_vars

\* an id updated twice at different times, removed, and updated again while
\* another id keeps its record; and a removal of an id that had no record
C21_Witness ==
    /\ Len(trackerCalls) = MaxCalls
    /\ trackerCalls[1].op = "update" /\ trackerCalls[1].id = 2
    /\ trackerCalls[2].op = "update" /\ trackerCalls[2].id = 1
    /\ trackerCalls[3].op = "remove" /\ trackerCalls[3].id = 1
    /\ trackerCalls[4].op = "remove" /\ trackerCalls[4].id = 1
    /\ trackerCalls[2].time > trackerCalls[1].time
    /\ DOMAIN tabActivityMap = {2}
    /\ tabActivityMap[2] = NowMs

----------------------------------------------------------------------------
(* C22 *)

WithoutDomain(i) == allTabs[i].url = NoUrl \/ ~UrlParses(allTabs[i].url)

\* the oldest of the tabs the max-tab pass may take, strictly
StrictlyOldestEligible(i) ==
    /\ allTabs[i].id # 0
    /\ ~allTabs[i].active
    /\ allTabs[i].id \notin tabsToClose.beforeMax
    /\ \A j \in TabIdx \ {i} :
        Eligible(j) => allTabs[j].lastAccessed > allTabs[i].lastAccessed

\* C22: a tab whose url is missing or does not parse has the domain '' and
\* matches no pattern of either list: the blacklist stage never adds it, and
\* no whitelist keeps the idle stage from adding it when it is idle beyond the
\* timeout, nor the max-tab pass from adding it when the limit is exceeded
\* and it is the oldest tab the pass may take
C22_NoDomainTabs ==
    Evaluated =>
        \A i \in TabIdx : WithoutDomain(i) =>
            /\ getDomain(allTabs[i].url) = <<>>
            /\ \A k \in 1..Len(settings.whitelist) :
                ~domainMatches(getDomain(allTabs[i].url), settings.whitelist[k])
            /\ \A k \in 1..Len(settings.blacklist) :
                ~domainMatches(getDomain(allTabs[i].url), settings.blacklist[k])
            /\ allTabs[i].id \notin tabsToClose.blacklist
            /\ (allTabs[i].id # 0 /\ ~allTabs[i].active /\ IdleBeyondTimeout(i))
                => allTabs[i].id \in tabsToClose.idle
            /\ (ExtraToClose > 0 /\ StrictlyOldestEligible(i))
                => allTabs[i].id \in tabsToClose.maxTabs

\* both lists hold an empty pattern; a tab without url is closed as idle, a
\* tab whose url does not parse and that is not idle is closed by the max-tab
\* pass
C22_Witness ==
    /\ Evaluated
    /\ Len(settings.whitelist) > 0 /\ settings.whitelist[1] = <<>>
    /\ Len(settings.blacklist) > 0 /\ settings.blacklist[1] = <<>>
    /\ \E i, j \in TabIdx :
        /\ allTabs[i].url = NoUrl /\ allTabs[i].lastAccessed = TimeOld
        /\ allTabs[j].url = UrlBad /\ allTabs[j].lastAccessed = TimeNew
        /\ tabsToClose.idle = {allTabs[i].id}
        /\ tabsToClose.blacklist = {}
        /\ tabsToClose.maxTabs = {allTabs[j].id}

----------------------------------------------------------------------------
(* C23 *)

\* the run holds its settings and its snapshot and has not evaluated the rules
HoldsSnapshot(r) == runs[r].pc \in {"iconOn", "iconOff"}

\* C23 as claimed: between the arrival of the snapshot and the evaluation of
\* the rules the run is not suspended: whenever a run holds its snapshot with
\* the rules not yet evaluated, the next step is that run's own, so no other
\* handler and no other run executes in between.
C23_NoSuspensionAfterSnapshot ==
    [][\A r \in Runs : HoldsSnapshot(r) => ~HoldsSnapshot(r)']_vars

-----------------------------------------------------------------------------
(* The script loaded with tabs open, initializeActivityTracking in flight
   (index.ts:97-110, 361) next to the tab events and the runs: SpecTracking *)

\* a tab the browser reports without an id
TabWithoutId == [id |-> 0, url |-> UrlFakeE, active |-> FALSE, lastAccessed |-> TimeOld]

\* the tabs open when the script is loaded: any of the ids, with or without
\* lastAccessed
TabsAtLoad == [BrowserIds -> {"closed", "open", "openWithoutLastAccessed"}]

\* every run reads these settings: enabled, the first tab's host blacklisted,
\* the warning threshold out of reach
TrackingSettings ==
    [DEFAULT_SETTINGS EXCEPT !.enabled = TRUE, !.idleTimeout = 1,
                             !.blacklist = <<HostSubE>>, !.notificationsEnabled = FALSE]

InitTracking ==
    /\ \E f \in TabsAtLoad :
        browserTabs = [i \in BrowserIds |->
            IF f[i] = "closed" THEN NoTab
            ELSE [id |-> i, url |-> TabUrl(i), active |-> FALSE,
                  lastAccessed |-> IF f[i] = "open" THEN TimeOld ELSE 0]]
    /\ initTracking = [pc |-> "query", tabs |-> <<>>]
    /\ tabActivityMap = <<>>
    /\ stored = TrackingSettings
    /\ warningActive = FALSE
    /\ iconRequested = "none"
    /\ pendingChange = NoChange
    /\ runs = [r \in Runs |-> IdleRun]
    /\ trackerCalls = <<>>
    /\ now = NowMs
    /\ phase = "input"
    /\ matcher = NoMatch
    /\ allTabs = <<>>
    /\ settings = DEFAULT_SETTINGS
    /\ tabsToClose = NoStages

\* what the steps of initializeActivityTracking leave as it is
trackingFrame ==
    /\ UNCHANGED <<allTabs, settings, now, tabsToClose, phase, matcher, trackerCalls>>
    /\ UNCHANGED hostVars

\* index.ts:99: the browser answers chrome.tabs.query({}) with the tabs open
\* at that moment, and possibly a tab without id
TrackingQueryAnswered ==
    /\ initTracking.pc = "query"
    /\ \E extra \in {<<>>, <<TabWithoutId>>} :
        initTracking' = [pc |-> "answered", tabs |-> queryTabs(browserTabs) \o extra]
    /\ UNCHANGED tabActivityMap
    /\ trackingFrame

\* index.ts:99-107: the answer reaches the script, which seeds the records
TrackingSnapshotArrives ==
    /\ initTracking.pc = "answered"
    /\ tabActivityMap' = seedRecords(tabActivityMap, initTracking.tabs, NowMs)
    /\ initTracking' = [initTracking EXCEPT !.pc = "done"]
    /\ trackingFrame

\* index.ts:99, 107-109: chrome.tabs.query rejects; the catch logs the error
TrackingQueryFails ==
    /\ initTracking.pc = "query"
    /\ initTracking' = [pc |-> "failed", tabs |-> <<>>]
    /\ UNCHANGED tabActivityMap
    /\ trackingFrame

\* the steps of the runs and the tab events keep initializeActivityTracking
\* where it is: they are the actions of Spec
NextTracking ==
    \/ TrackingQueryAnswered
    \/ TrackingSnapshotArrives
    \/ TrackingQueryFails
    \/ \E r \in Runs : StartRun(r)
    \/ \E r \in Runs : SettingsArrive(r)
    \/ \E r \in Runs : QueryFails(r)
    \/ \E r \in Runs : SnapshotArrives(r)
    \/ \E r \in Runs : RemoveResolves(r)
    \/ \E r \in Runs : RemoveFails(r)
    \/ \E r \in Runs : RunReturns(r)
    \/ \E id \in BrowserIds, r \in Runs : TabCreated(id, r)
    \/ \E id \in BrowserIds : TabActivated(id)
    \/ \E id \in BrowserIds : TabRemoved(id)

SpecTracking == InitTracking /\ [][NextTracking]_vars

----------------------------------------------------------------------------
(* C24 *)

\* C24 as claimed: the activity map holds no record for a tab that is closed
\* (its onRemoved handler has run and no tab with that id was created since),
\* whatever initializeActivityTracking and the runs in flight do.
C24_NoRecordOfClosedTab ==
    \A id \in BrowserIds : browserTabs[id] = NoTab => id \notin DOMAIN tabActivityMap

----------------------------------------------------------------------------
(* C25 *)

\* the positions of the snapshot that carry the id
SnapshotEntries(id) ==
    {p \in 1..Len(initTracking.tabs) : initTracking.tabs[p].id = id}

\* C25: when the snapshot reaches initializeActivityTracking, every id of the
\* snapshot gets the record lastAccessed, or the current time when the tab
\* has none; the records of the ids outside the snapshot stay as they were;
\* a tab without id gets no record; when the query fails the map stays as it
\* was; and the call never ends with a rejection
C25_InitializeSeedsRecords ==
    [][/\ (initTracking.pc = "answered" /\ initTracking'.pc # "answered") =>
            /\ initTracking'.pc = "done"
            /\ \A id \in BrowserIds :
                IF SnapshotEntries(id) # {}
                THEN /\ id \in DOMAIN tabActivityMap'
                     /\ \A p \in SnapshotEntries(id) :
                        tabActivityMap'[id] =
                            IF initTracking.tabs[p].lastAccessed # 0
                            THEN initTracking.tabs[p].lastAccessed
                            ELSE NowMs
                ELSE /\ id \in DOMAIN tabActivityMap' <=> id \in DOMAIN tabActivityMap
                     /\ id \in DOMAIN tabActivityMap =>
                            tabActivityMap'[id] = tabActivityMap[id]
            /\ DOMAIN tabActivityMap' \subseteq BrowserIds
       /\ (initTracking.pc = "query" /\ initTracking'.pc # "query") =>
            /\ initTracking'.pc \in {"answered", "failed"}
            /\ tabActivityMap' = tabActivityMap
       /\ initTracking'.pc \in {"query", "answered", "done", "failed"}]_vars

\* the snapshot held a tab with lastAccessed, one without and one without id;
\* nothing else is recorded
C25_Witness ==
    /\ initTracking.pc = "done"
    /\ Len(initTracking.tabs) = 3
    /\ initTracking.tabs[1].id = 1 /\ initTracking.tabs[1].lastAccessed = TimeOld
    /\ initTracking.tabs[2].id = 2 /\ initTracking.tabs[2].lastAccessed = 0
    /\ initTracking.tabs[3].id = 0
    /\ tabActivityMap = <<TimeOld, NowMs>>

\* the query failed with a record in the map, which is still there
C25_WitnessQueryFailed ==
    /\ initTracking.pc = "failed"
    /\ tabActivityMap # <<>>

----------------------------------------------------------------------------
(* C26 *)

\* how far a call of applyCleanupRules has come
PcRank(pc) ==
    CASE pc = "idle" -> 0
      [] pc = "getSettings" -> 1
      [] pc = "queryTabs" -> 2
      [] pc \in {"iconOn", "iconOff"} -> 3
      [] pc = "remove" -> 4
      [] pc = "done" -> 5
      [] OTHER -> 6

\* C26: whatever fails, a call of applyCleanupRules only moves forward, so it
\* ends after at most five steps, and it ends resolved, never rejected; it
\* makes at most one close request, and when that request fails the call is
\* over with no request added
C26_RunsEndWithoutRejection ==
    [][\A r \in Runs : runs'[r] # runs[r] =>
        /\ runs'[r].pc # "rejected"
        /\ IF runs[r].pc = "done"
           THEN runs'[r] = IdleRun
           ELSE PcRank(runs'[r].pc) > PcRank(runs[r].pc)
        /\ Len(runs'[r].closeRequests) <= 1
        /\ ("remove" \in runs'[r].failed /\ "remove" \notin runs[r].failed) =>
            /\ runs'[r].pc = "done"
            /\ runs'[r].closeRequests = runs[r].closeRequests]_vars

\* a call in which the icon request, the warning notification and the close
\* action failed, over and resolved, with its one close request
C26_Witness ==
    \E r \in Runs :
        /\ runs[r].pc = "done"
        /\ runs[r].failed = {"icon", "warning", "remove"}
        /\ Len(runs[r].closeRequests) = 1

\* calls that ended after the settings fetch failed and after the tab query
\* failed
C26_WitnessFetches ==
    \E r, q \in Runs :
        /\ runs[r].pc = "done" /\ runs[r].failed = {"settings"}
        /\ runs[q].pc = "done" /\ runs[q].failed = {"query"}

-----------------------------------------------------------------------------
(* The periodic alarm as the retry: cleanup stays enabled and one tab stays
   idle, non-active and off the lists (index.ts:160-269, 271-278): SpecRetry *)

\* the tab that stays idle: it is on the host no list matches
IdleTabId == 2

\* the settings every run reads when its fetch succeeds
RetrySettings ==
    [enabled : {TRUE}, idleTimeout : {1}, maxTabs : {3}, whitelist : {<<>>},
     blacklist : {<<HostSubE>>}, notificationsEnabled : BOOLEAN]

InitRetry ==
    /\ stored \in RetrySettings
    /\ browserTabs = [i \in BrowserIds |->
            IF i = IdleTabId
            THEN [id |-> i, url |-> TabUrl(i), active |-> FALSE, lastAccessed |-> TimeOld]
            ELSE NoTab]
    /\ tabActivityMap \in {<<>>, [i \in {IdleTabId} |-> TimeOld]}
    /\ warningActive = FALSE
    /\ iconRequested = "none"
    /\ pendingChange = NoChange
    /\ runs = [r \in Runs |-> IdleRun]
    /\ initTracking = NoTracking
    /\ trackerCalls = <<>>
    /\ now = NowMs
    /\ phase = "input"
    /\ matcher = NoMatch
    /\ allTabs = <<>>
    /\ settings = DEFAULT_SETTINGS
    /\ tabsToClose = NoStages

\* the actions of Spec, without a change of the settings and without the user
\* switching to the idle tab or closing it
NextRetry ==
    \/ \E r \in Runs : StartRun(r)
    \/ \E r \in Runs : SettingsArrive(r)
    \/ \E r \in Runs : QueryFails(r)
    \/ \E r \in Runs : SnapshotArrives(r)
    \/ \E r \in Runs : IconSettles(r)
    \/ \E r \in Runs : RemoveResolves(r)
    \/ \E r \in Runs : RemoveFails(r)
    \/ \E r \in Runs : RunReturns(r)
    \/ \E id \in BrowserIds \ {IdleTabId}, r \in Runs : TabCreated(id, r)
    \/ \E id \in BrowserIds \ {IdleTabId} : TabActivated(id)
    \/ \E id \in BrowserIds \ {IdleTabId} : TabRemoved(id)

\* the settings fetch of a run succeeds
SettingsFetched(r) == SettingsArrive(r) /\ runs'[r].failed = {}

\* index.ts:271-278: the alarm fires again and again (strong fairness: the
\* slots of the model are free again and again); every request a run waits
\* for settles, one way or the other (weak fairness); the settings fetch and
\* the tab query do not fail forever (strong fairness)
FairRetry ==
    /\ SF_vars(\E r \in Runs : StartRun(r))
    /\ SF_vars(\E r \in Runs : SettingsFetched(r))
    /\ SF_vars(\E r \in Runs : SnapshotArrives(r))
    /\ \A r \in Runs :
        /\ WF_vars(SettingsArrive(r))
        /\ WF_vars(SnapshotArrives(r) \/ QueryFails(r))
        /\ WF_vars(IconSettles(r))
        /\ WF_vars(RemoveResolves(r) \/ RemoveFails(r))
        /\ WF_vars(RunReturns(r))

SpecRetry == InitRetry /\ [][NextRetry]_vars /\ FairRetry

----------------------------------------------------------------------------
(* C27 *)

\* the idle tab is open and no close request that names it is waiting
IdleTabWaits ==
    /\ browserTabs[IdleTabId] # NoTab
    /\ ~browserTabs[IdleTabId].active
    /\ getLastActivity(browserTabs[IdleTabId], tabActivityMap) = TimeOld

\* a run has called chrome.tabs.remove with the idle tab among the ids
CloseRequested(r) ==
    /\ runs[r].pc = "remove"
    /\ IdleTabId \in Range(runs[r].closeRequests[1])

\* C27: while cleanup stays enabled and the tab stays non-active, off the
\* whitelist and idle beyond the timeout, from every state in which the tab is
\* open (the states after a failed tab query or a failed close action
\* included) a close request that names the tab is eventually issued
C27_IdleTabEventuallyRequested ==
    IdleTabWaits ~> (\E r \in Runs : CloseRequested(r))

\* the close action of one run failed, the tab is still open, and a later
\* run has issued a close request that names it
C27_Witness ==
    /\ IdleTabWaits
    /\ runs[1].pc = "done" /\ runs[1].failed = {"remove"}
    /\ CloseRequested(2)

----------------------------------------------------------------------------
(* C28 *)

\* the step in which run r calls chrome.tabs.remove
IssuesClose(r) == Len(runs'[r].closeRequests) > Len(runs[r].closeRequests)

\* C28 as claimed: no run calls chrome.tabs.remove while the stored enabled
\* setting is false, a run that read enabled = true before the setting was
\* switched off included.
C28_NoCloseWhileDisabled ==
    [][\A r \in Runs : IssuesClose(r) => stored.enabled]_vars

----------------------------------------------------------------------------
(* C29 *)

\* the step in which run r, its snapshot in hand, evaluates the rules, finds
\* nothing to close and is over
CompletesAfterRules(r) ==
    /\ runs[r].pc \in {"queryTabs", "iconOn", "iconOff"}
    /\ runs'[r].pc = "done"
    /\ "query" \notin runs'[r].failed

\* the number of tabs in the snapshot of that run
SnapshotCount(r) ==
    IF runs[r].pc = "queryTabs" THEN TabCount ELSE Len(runs[r].allTabs)

\* C29 as claimed: when a run that passed the gate is over, warningActive is
\* true only if that run's maxTabs - 2 is positive and its snapshot holds at
\* least maxTabs - 2 tabs.
C29_LatchOnlyWhenWarranted ==
    [][\A r \in Runs : (CompletesAfterRules(r) /\ warningActive') =>
        /\ runs[r].settings.maxTabs - 2 > 0
        /\ SnapshotCount(r) >= runs[r].settings.maxTabs - 2]_vars

----------------------------------------------------------------------------
(* C30 *)

\* C30: in every state the icon requested last is the warning icon exactly
\* when warningActive is true; before any request the icon counts as off
C30_IconFollowsLatch ==
    (iconRequested = "on") <=> warningActive

\* one run cleared the warning and waits for its icon request; a tab was
\* opened and another run raised the warning again: the last request is the
\* warning icon and the latch is set
C30_Witness ==
    \E r, q \in Runs :
        /\ runs[r].pc = "iconOff"
        /\ runs[q].pc = "iconOn"
        /\ warningActive
        /\ iconRequested = "on"

====
